---- MODULE Spec2Model ----
(***************************************************************************)
(* Model of transformer.py: a zip archive of tennis tracking documents is  *)
(* listed, its data/<name>.json entries are ordered by the integer tuple   *)
(* in their name, every document is decoded and its shots are joined with  *)
(* hit and bounce samples into rows, and the rows are written to           *)
(* result.csv.                                                             *)
(*                                                                         *)
(* File names are sequences of one-character strings.  JSON scalars that   *)
(* the program only copies (coordinates, ids, season ...) are opaque       *)
(* strings; sample times and shot durations are integers because the       *)
(* program adds and compares them.  The row fields stroke, spin_type,      *)
(* spin_rpm, call and the two timestamps are copies or renderings of shot  *)
(* fields that no checked property reads; of these only the presence of    *)
(* the "spin" key is modelled (a missing key is a fatal KeyError).         *)
(***************************************************************************)
EXTENDS Integers, Sequences, FiniteSets, TLC

VARIABLES
    zip,          \* the input archive: [readable, names, content]
    pc,           \* position of the script
    err,          \* the unhandled exception that ended the run, if any
    sorted_list,  \* names returned by sort_files, in processing order
    index,        \* enumerate() index of the document being / to be processed
    match,        \* match metadata (None until the first document)
    players,      \* team -> player of the match roster (None until then)
    data,         \* the decoded document being processed
    hits,         \* hit-tagged samples of the current document
    bounces,      \* bounce-tagged samples of the current document
    shot_i,       \* number of shots of the current document already handled
    rows,         \* the accumulated output rows
    origin,       \* history: for each row, the document index and shot position
    opened,       \* history: archive members opened with zip_ref.open, in order
    result_csv    \* the output file: [state, header, body]

vars == <<zip, pc, err, sorted_list, index, match, players, data, hits,
          bounces, shot_i, rows, origin, opened, result_csv>>

-----------------------------------------------------------------------------
(* Bounds of the explored inputs *)

MaxEntries == 2
MaxSamples == 3
MaxTime == 3
MaxShotNo == 2
MaxPlayers == 3

-----------------------------------------------------------------------------
(* Generic helpers *)

None == [none |-> TRUE]

Min(S) == CHOOSE x \in S : \A y \in S : x <= y

Max(S) == CHOOSE x \in S : \A y \in S : x >= y

Range(s) == {s[i] : i \in 1..Len(s)}

\* All sequences over S of length at most n.
SeqsUpTo(S, n) == UNION {[1..k -> S] : k \in 0..n}

\* All sequences without repetition over S of length at most n.
DistinctSeqs(S, n) ==
    {s \in SeqsUpTo(S, n) : \A i, j \in 1..Len(s) : i # j => s[i] # s[j]}

-----------------------------------------------------------------------------
(* re.search(pattern, file_name) with pattern = r"data/(.+?)\.json" *)

DataPrefix == <<"d", "a", "t", "a", "/">>

JsonSuffix == <<".", "j", "s", "o", "n">>

\* The literal lit occurs in s starting at position i.
LitAt(s, i, lit) ==
    /\ i >= 1
    /\ i + Len(lit) - 1 <= Len(s)
    /\ SubSeq(s, i, i + Len(lit) - 1) = lit

\* Lengths k >= 1 of a group (.+?) that lets the pattern match at start i:
\* "data/" at i, k characters other than a newline, then ".json".
GroupLens(s, i) ==
    IF ~LitAt(s, i, DataPrefix) THEN {}
    ELSE {k \in 1..Len(s) :
             /\ LitAt(s, i + Len(DataPrefix) + k, JsonSuffix)
             /\ \A j \in (i + Len(DataPrefix))..(i + Len(DataPrefix) + k - 1) :
                    s[j] # "\n"}

MatchStarts(s) == {i \in 1..Len(s) : GroupLens(s, i) # {}}

\* re.search: the leftmost start, and there the shortest group (lazy .+?).
\* [found |-> FALSE] is Python's None; otherwise group is match.group(1).
Search(s) ==
    IF MatchStarts(s) = {}
    THEN [found |-> FALSE, group |-> <<>>]
    ELSE LET i == Min(MatchStarts(s))
             k == Min(GroupLens(s, i))
         IN  [found |-> TRUE,
              group |-> SubSeq(s, i + Len(DataPrefix), i + Len(DataPrefix) + k - 1)]

-----------------------------------------------------------------------------
(* match.group(1).split("_") and int(x) *)

RECURSIVE Split(_)
Split(s) ==
    IF \A i \in 1..Len(s) : s[i] # "_"
    THEN <<s>>
    ELSE LET i == Min({j \in 1..Len(s) : s[j] = "_"})
         IN  <<SubSeq(s, 1, i - 1)>> \o Split(SubSeq(s, i + 1, Len(s)))

Digits == <<"0", "1", "2", "3", "4", "5", "6", "7", "8", "9">>

IsDigit(c) == \E d \in 1..Len(Digits) : Digits[d] = c

DigitValue(c) == (CHOOSE d \in 1..Len(Digits) : Digits[d] = c) - 1

\* int() ignores surrounding whitespace.
RECURSIVE Strip(_)
Strip(s) ==
    IF s = <<>> THEN s
    ELSE IF Head(s) = " " THEN Strip(Tail(s))
    ELSE IF s[Len(s)] = " " THEN Strip(SubSeq(s, 1, Len(s) - 1))
    ELSE s

HasSign(s) == s # <<>> /\ Head(s) \in {"+", "-"}

Unsigned(s) == IF HasSign(s) THEN Tail(s) ELSE s

\* An int() that also accepts the empty string.
IsIntLiteralOrEmpty(x) ==
    \A i \in 1..Len(Unsigned(Strip(x))) : IsDigit(Unsigned(Strip(x))[i])

\* int(x) succeeds: optional sign, then one or more digits.
IsIntLiteral(x) ==
    LET u == Unsigned(Strip(x))
    IN  u # <<>> /\ \A i \in 1..Len(u) : IsDigit(u[i])

RECURSIVE DigitsValue(_)
DigitsValue(u) ==
    IF u = <<>> THEN 0
    ELSE 10 * DigitsValue(SubSeq(u, 1, Len(u) - 1)) + DigitValue(u[Len(u)])

\* int(x), for x with IsIntLiteral(x).
IntOf(x) ==
    LET t == Strip(x)
        v == DigitsValue(Unsigned(t))
    IN  IF HasSign(t) /\ Head(t) = "-" THEN 0 - v ELSE v

\* sequence = [int(x) for x in group.split("_")]
Sequence(group) ==
    LET parts == Split(group) IN [i \in 1..Len(parts) |-> IntOf(parts[i])]

\* The list comprehension raises ValueError.
SequenceRaises(group) ==
    \E i \in 1..Len(Split(group)) : ~IsIntLiteral(Split(group)[i])

-----------------------------------------------------------------------------
(* sorted_list.sort(key=lambda x: x[0]): Python's order on lists of ints,  *)
(* and a stable sort.                                                      *)

ListLess(a, b) ==
    \E i \in 1..(Len(a) + 1) :
        /\ \A j \in 1..(i - 1) : j <= Len(b) /\ a[j] = b[j]
        /\ \/ i <= Len(a) /\ i <= Len(b) /\ a[i] < b[i]
           \/ i = Len(a) + 1 /\ i <= Len(b)

\* e goes after every element whose key is not greater than its own.
InsertStable(s, e) ==
    LET after == {i \in 1..Len(s) : ~ListLess(e.sequence, s[i].sequence)}
        p == IF after = {} THEN 0 ELSE Max(after)
    IN  SubSeq(s, 1, p) \o <<e>> \o SubSeq(s, p + 1, Len(s))

RECURSIVE StableSort(_)
StableSort(s) ==
    IF s = <<>> THEN <<>>
    ELSE InsertStable(StableSort(SubSeq(s, 1, Len(s) - 1)), s[Len(s)])

-----------------------------------------------------------------------------
(* sort_files *)

\* The loop of sort_files appends (sequence, name) for each matching entry.
RECURSIVE Collected(_)
Collected(file_list) ==
    IF file_list = <<>> THEN <<>>
    ELSE LET m == Search(Head(file_list))
         IN  (IF m.found
              THEN <<[sequence |-> Sequence(m.group), name |-> m.group]>>
              ELSE <<>>) \o Collected(Tail(file_list))

\* sort_files raises ValueError on some entry.
SortFilesRaises(file_list) ==
    \E i \in 1..Len(file_list) :
        Search(file_list[i]).found /\ SequenceRaises(Search(file_list[i]).group)

\* sort_files without the sort: the names in archive order.
SortFilesUnsorted(file_list) ==
    [i \in 1..Len(Collected(file_list)) |-> Collected(file_list)[i].name]

\* The list sort_files returns when it does not raise.
SortFiles(file_list) ==
    LET s == StableSort(Collected(file_list))
    IN  [i \in 1..Len(s) |-> s[i].name]

\* f"data/{file_name}.json"
Member(file_name) == DataPrefix \o file_name \o JsonSuffix

-----------------------------------------------------------------------------
(* Per-document processing *)

\* json.loads(content): content is [valid, json]; invalid content raises.
JsonLoads(content) == content.json

\* sample.get("event")
GetEvent(sample) == IF "event" \in DOMAIN sample THEN sample.event ELSE "None"

IsHit(sample) == GetEvent(sample) = "hit"

IsBounce(sample) == GetEvent(sample) = "bounce"

\* The hit-tagged samples, in original order.
Hits(samples) == SelectSeq(samples, IsHit)

\* The bounce-tagged samples, in original order.
Bounces(samples) == SelectSeq(samples, IsBounce)

\* players = {player["team"]: player for player in match["players"]}:
\* a later roster entry of the same team replaces an earlier one.
Players(m) ==
    [t \in {m.players[i].team : i \in 1..Len(m.players)} |->
        m.players[Max({i \in 1..Len(m.players) : m.players[i].team = t})]]

\* match taken from every document that has one.
MatchAfterEveryDocument(idx, d, m) == IF "match" \in DOMAIN d THEN d.match ELSE m

\* if index == 0: match = data["match"]
MatchAfter(idx, d, m) == IF idx = 0 THEN d.match ELSE m

\* if index == 0: players = {...}
PlayersAfter(idx, d, p) == IF idx = 0 THEN Players(d.match) ELSE p

\* The skip test with >= in place of >.
SkipsAtLeast(shot_n, hs) == shot_n >= Len(hs)

\* if shot_n > len(hits): continue
Skips(shot_n, hs) == shot_n > Len(hs)

\* list[i] raises IndexError.
IndexRaises(list, i) == i >= Len(list) \/ i < 0 - Len(list)

\* list[i] with Python's indexing: 0-based, negative i counts from the end.
Item(list, i) == IF i >= 0 THEN list[i + 1] ELSE list[Len(list) + i + 1]

\* hits[shot_n] in place of hits[shot_n - 1] (wrapping at the end).
SelectHitOffByOne(hs, shot_n) == Item(hs, IF shot_n < Len(hs) THEN shot_n ELSE 0)

\* hit = hits[shot_n - 1]
SelectHit(hs, shot_n) == Item(hs, shot_n - 1)

\* The window closed at its end: time <= hit time + duration.
SelectBounceInclusive(bs, hit, duration) ==
    LET q == {i \in 1..Len(bs) :
                 hit.time < bs[i].time /\ bs[i].time <= hit.time + duration}
    IN  IF q = {} THEN None ELSE bs[Min(q)]

\* bounce = next((x for x in bounces
\*                if hit["time"] < x["time"] < hit["time"] + duration), None)
SelectBounce(bs, hit, duration) ==
    LET q == {i \in 1..Len(bs) :
                 hit.time < bs[i].time /\ bs[i].time < hit.time + duration}
    IN  IF q = {} THEN None ELSE bs[Min(q)]

\* bounce_ball = bounce["ball"]["pos"] if bounce else {"x": "", "y": ""}
BounceBall(bounce) == IF bounce # None THEN bounce.ball.pos ELSE [x |-> "", y |-> ""]

\* The sort without reverse=True: False first.
HitPlayersPositionsAscending(hit_players, team) ==
    LET OfTeam(x) == x.team = team
        NotOfTeam(x) == x.team # team
    IN  SelectSeq(hit_players, NotOfTeam) \o SelectSeq(hit_players, OfTeam)

\* sorted(hit["players"], key=lambda x: x["team"] == shot["team"], reverse=True):
\* a stable sort on a boolean key, True first.
HitPlayersPositions(hit_players, team) ==
    LET OfTeam(x) == x.team = team
        NotOfTeam(x) == x.team # team
    IN  SelectSeq(hit_players, OfTeam) \o SelectSeq(hit_players, NotOfTeam)

\* The exception raised while a shot that is not skipped is turned into a
\* row, in the order the script evaluates, or "none".
ShotError(shot, hs, ps) ==
    IF IndexRaises(hs, shot.shot_no - 1) THEN "IndexError"
    ELSE IF shot.team \notin DOMAIN ps THEN "KeyError"
    ELSE IF "spin" \notin DOMAIN shot THEN "KeyError"
    ELSE IF Len(SelectHit(hs, shot.shot_no).players) < 2 THEN "IndexError"
    ELSE "none"

\* The row built from a shot (lines 116-142).
Row(shot, m, ps, sequences, hs, bs) ==
    LET hit == SelectHit(hs, shot.shot_no)
        bounce == SelectBounce(bs, hit, shot.duration)
        hit_ball == hit.ball.pos
        bounce_ball == BounceBall(bounce)
        hpp == HitPlayersPositions(hit.players, shot.team)
    IN  [season |-> m.season,
         tournament_id |-> m.tournament_id,
         draw_code |-> m.draw_code,
         set |-> sequences.set,
         game |-> sequences.game,
         point |-> sequences.point,
         serve |-> sequences.serve,
         rally |-> sequences.rally,
         shot_n |-> shot.shot_no,
         hitter_external_id |-> ps[shot.team].external_id,
         ball_hit_x |-> hit_ball.x,
         ball_hit_y |-> hit_ball.y,
         ball_hit_z |-> hit_ball.z,
         ball_bounce_x |-> bounce_ball.x,
         ball_bounce_y |-> bounce_ball.y,
         hitter_x |-> hpp[1].pos.x,
         hitter_y |-> hpp[1].pos.y,
         receiver_x |-> hpp[2].pos.x,
         receiver_y |-> hpp[2].pos.y]

\* fieldnames = list(rows[0].keys())
FieldNames ==
    <<"season", "tournament_id", "draw_code", "set", "game", "point", "serve",
      "rally", "shot_n", "hitter_external_id", "ball_hit_x", "ball_hit_y",
      "ball_hit_z", "ball_bounce_x", "ball_bounce_y", "hitter_x", "hitter_y",
      "receiver_x", "receiver_y">>

\* The exception raised between pulling the next name from the generator and
\* entering the shot loop, or "none": zip_ref.open, json.loads, data["match"],
\* data["sequences"], data["samples"], data["shots"].
ReadError(z, file_name, idx) ==
    LET member == Member(file_name) IN
    IF member \notin DOMAIN z.content THEN "KeyError"
    ELSE IF ~z.content[member].valid THEN "JSONDecodeError"
    ELSE LET d == JsonLoads(z.content[member]) IN
         IF idx = 0 /\ "match" \notin DOMAIN d THEN "KeyError"
         ELSE IF {"sequences", "samples", "shots"} \ DOMAIN d # {} THEN "KeyError"
         ELSE "none"

NoError == [kind |-> "none", at |-> "none"]

-----------------------------------------------------------------------------
(* Inputs: archive entry names *)

\* The entry data/<name>.json.
N_1 == Member(<<"1">>)

N_2 == Member(<<"2">>)

N_10 == Member(<<"1", "0">>)

N_01 == Member(<<"0", "1">>)

N_1_0 == Member(<<"1", "_", "0">>)

N_2_0 == Member(<<"2", "_", "0">>)

N_1_ == Member(<<"1", "_">>)

N_sub_1 == Member(<<"s", "u", "b", "/", "1">>)

N_1_json == Member(<<"1", ".", "j", "s", "o", "n">>)

N_backup_1 == <<"b", "a", "c", "k", "u", "p", "/">> \o N_1

N_1_bak == N_1 \o <<".", "b", "a", "k">>

N_manifest == <<"m", "a", "n", "i", "f", "e", "s", "t", ".", "t", "x", "t">>

N_dir == DataPrefix

EntryNames ==
    {N_1, N_2, N_10, N_01, N_1_0, N_2_0, N_1_, N_sub_1, N_1_json,
     N_backup_1, N_1_bak, N_manifest, N_dir}

-----------------------------------------------------------------------------
(* Inputs: documents *)

Teams == {"A", "B", "C"}

Match1 ==
    [season |-> "2023", tournament_id |-> "T1", draw_code |-> "MS",
     players |-> <<[team |-> "A", external_id |-> "a1"],
                   [team |-> "B", external_id |-> "b1"]>>]

Match2 ==
    [season |-> "2024", tournament_id |-> "T2", draw_code |-> "WS",
     players |-> <<[team |-> "A", external_id |-> "a2"],
                   [team |-> "B", external_id |-> "b2"],
                   [team |-> "A", external_id |-> "a3"]>>]

Sequences1 ==
    [set |-> "1", game |-> "2", point |-> "3", serve |-> "1", rally |-> "7"]

\* Coordinates are tokens that name the sample (and the player entry) they
\* come from, so that a row shows which sample it was built from.
Tok == <<"1", "2", "3", "4", "5", "6">>

Ball(i) == [pos |-> [x |-> "bx" \o Tok[i], y |-> "by" \o Tok[i], z |-> "bz" \o Tok[i]]]

PlayerEntry(team, j) ==
    [team |-> team, pos |-> [x |-> "px" \o Tok[j], y |-> "py" \o Tok[j]]]

PlayersAB == <<PlayerEntry("A", 1), PlayerEntry("B", 2)>>

PlayersBA == <<PlayerEntry("B", 1), PlayerEntry("A", 2)>>

\* The i-th sample of a document.
Sample(i, event, time, ps) ==
    [event |-> event, time |-> time, ball |-> Ball(i), players |-> ps]

\* A sample without an "event" key.
Untagged(i, time, ps) == [time |-> time, ball |-> Ball(i), players |-> ps]

Shot(shot_no, team, duration) ==
    [shot_no |-> shot_no, team |-> team, duration |-> duration,
     spin |-> [type |-> "flat", rpm |-> "0"]]

\* A shot record without the "spin" key.
ShotNoSpin(shot_no, team, duration) ==
    [shot_no |-> shot_no, team |-> team, duration |-> duration]

Doc(m, samples, shots) ==
    [match |-> m, sequences |-> Sequences1, samples |-> samples, shots |-> shots]

\* A document without the "match" key.
DocNoMatch(samples, shots) ==
    [sequences |-> Sequences1, samples |-> samples, shots |-> shots]

File(d) == [valid |-> TRUE, json |-> d]

\* Content that is not JSON.
NotJson == [valid |-> FALSE, json |-> None]

SampleLists ==
    {<<Sample(1, "hit", 1, PlayersAB), Sample(2, "bounce", 2, PlayersAB),
       Untagged(3, 3, PlayersAB), Sample(4, "hit", 4, PlayersBA),
       Sample(5, "bounce", 5, PlayersBA)>>,
     <<Sample(1, "bounce", 1, PlayersAB), Untagged(2, 2, PlayersAB)>>,
     <<Sample(1, "hit", 1, <<PlayerEntry("A", 1)>>)>>}

ShotLists ==
    {<<>>,
     <<Shot(1, "A", 2)>>,
     <<Shot(3, "A", 1), Shot(1, "B", 2), Shot(2, "A", 2)>>,
     <<Shot(2, "B", 3), Shot(5, "A", 1), Shot(1, "A", 1)>>,
     <<Shot(1, "C", 1)>>,
     <<ShotNoSpin(1, "A", 1)>>,
     <<Shot(0, "A", 1)>>}

\* Documents with and without a "match" key, content that is not JSON, and a
\* document without the "sequences" key.
Catalog ==
    {File(Doc(Match1, ss, sh)) : ss \in SampleLists, sh \in ShotLists}
    \cup {File(Doc(Match2, ss, <<Shot(1, "A", 2)>>)) : ss \in SampleLists}
    \cup {File(DocNoMatch(ss, <<Shot(1, "A", 2)>>)) : ss \in SampleLists}
    \cup {NotJson,
          File([match |-> Match1, samples |-> <<>>, shots |-> <<>>])}

\* The document stored under every entry of the archives that vary the names.
UnitDoc ==
    Doc(Match1,
        <<Sample(1, "hit", 1, PlayersAB)>>,
        <<Shot(1, "A", 1), Shot(2, "A", 1)>>)

-----------------------------------------------------------------------------
(* Inputs: archives *)

Archive(names, content) == [readable |-> TRUE, names |-> names, content |-> content]

\* Any listing of at most MaxEntries distinct names, every entry holding UnitDoc.
NameArchives ==
    {Archive(names, [n \in Range(names) |-> File(UnitDoc)]) :
        names \in DistinctSeqs(EntryNames, MaxEntries)}

\* data/1.json and data/2.json, in either archive order, with any two
\* catalogue documents.
DocArchives ==
    {Archive(names, [n \in {N_1, N_2} |-> IF n = N_1 THEN c1 ELSE c2]) :
        names \in {<<N_1, N_2>>, <<N_2, N_1>>}, c1 \in Catalog, c2 \in Catalog}

\* Samples of one document: any sequence of at most MaxSamples samples, each
\* a hit at time 0 or a bounce at a time in 0..MaxTime.
TimedShapes ==
    SeqsUpTo({<<"hit", 0>>} \cup ({"bounce"} \X (0..MaxTime)), MaxSamples)

TimedSamples(shape) ==
    [i \in 1..Len(shape) |-> Sample(i, shape[i][1], shape[i][2], PlayersAB)]

\* One document with any such samples and a first shot of any duration in
\* 0..MaxTime.
BounceArchives ==
    {Archive(<<N_1>>,
             [n \in {N_1} |->
                 File(Doc(Match1, TimedSamples(shape), <<Shot(1, "A", d)>>))]) :
        shape \in TimedShapes, d \in 0..MaxTime}

\* Samples of one document: any sequence of at most MaxSamples samples tagged
\* hit, bounce or not at all, at times 1, 2, ...
EventShapes == SeqsUpTo({"hit", "bounce", "None"}, MaxSamples)

EventSamples(shape) ==
    [i \in 1..Len(shape) |->
        IF shape[i] = "None"
        THEN Untagged(i, i, PlayersAB)
        ELSE Sample(i, shape[i], i, PlayersAB)]

\* One document with any such samples and two shots with any numbers in
\* -1..MaxShotNo.
HitArchives ==
    {Archive(<<N_1>>,
             [n \in {N_1} |->
                 File(Doc(Match1, EventSamples(shape),
                          <<Shot(k1, "A", 1), Shot(k2, "B", 1)>>))]) :
        shape \in EventShapes, k1 \in (0 - 1)..MaxShotNo, k2 \in (0 - 1)..MaxShotNo}

PlayerLists == SeqsUpTo(Teams, MaxPlayers)

EntriesOf(teams) == [j \in 1..Len(teams) |-> PlayerEntry(teams[j], j)]

\* One document with one hit whose player list is any list of at most
\* MaxPlayers entries, and one shot of any team.
PlayerArchives ==
    {Archive(<<N_1>>,
             [n \in {N_1} |->
                 File(Doc(Match1,
                          <<Sample(1, "hit", 1, EntriesOf(teams))>>,
                          <<Shot(1, t, 1)>>))]) :
        teams \in PlayerLists, t \in Teams}

\* A file that is not a zip archive.
BadZip == [readable |-> FALSE, names |-> <<>>, content |-> <<>>]

Archives ==
    NameArchives \cup DocArchives \cup BounceArchives \cup HitArchives
    \cup PlayerArchives \cup {BadZip}

-----------------------------------------------------------------------------
(* The script *)

Untouched == [state |-> "untouched", header |-> <<>>, body |-> <<>>]

Init ==
    /\ zip \in Archives
    /\ pc = "list"
    /\ err = NoError
    /\ sorted_list = <<>>
    /\ index = 0
    /\ match = None
    /\ players = None
    /\ data = None
    /\ hits = <<>>
    /\ bounces = <<>>
    /\ shot_i = 0
    /\ rows = <<>>
    /\ origin = <<>>
    /\ opened = <<>>
    /\ result_csv = Untouched

Fail(kind, at) ==
    /\ pc' = "failed"
    /\ err' = [kind |-> kind, at |-> at]

\* zipfile.ZipFile(zip_path) raises: the file is not a readable archive.
OpenZipError ==
    /\ pc = "list"
    /\ ~zip.readable
    /\ Fail("BadZipFile", "zip")
    /\ UNCHANGED <<zip, sorted_list, index, match, players, data, hits, bounces,
                   shot_i, rows, origin, opened, result_csv>>

\* ListFiles with the output file opened before the archive is read.
ListFilesOpeningOutput ==
    /\ pc = "list"
    /\ zip.readable
    /\ ~SortFilesRaises(zip.names)
    /\ sorted_list' = SortFiles(zip.names)
    /\ result_csv' = [state |-> "truncated", header |-> <<>>, body |-> <<>>]
    /\ pc' = "next"
    /\ UNCHANGED <<zip, err, index, match, players, data, hits, bounces, shot_i,
                   rows, origin, opened>>

\* First next() of the generator: namelist() and sort_files succeed.
ListFiles ==
    /\ pc = "list"
    /\ zip.readable
    /\ ~SortFilesRaises(zip.names)
    /\ sorted_list' = SortFiles(zip.names)
    /\ pc' = "next"
    /\ UNCHANGED <<zip, err, index, match, players, data, hits, bounces, shot_i,
                   rows, origin, opened, result_csv>>

\* sort_files raises ValueError.
SortFilesError ==
    /\ pc = "list"
    /\ zip.readable
    /\ SortFilesRaises(zip.names)
    /\ Fail("ValueError", "sort_files")
    /\ UNCHANGED <<zip, sorted_list, index, match, players, data, hits, bounces,
                   shot_i, rows, origin, opened, result_csv>>

\* The generator yields the next document and the loop body runs up to the
\* shot loop (lines 50-53, 65-84).
ReadDocument ==
    /\ pc = "next"
    /\ index < Len(sorted_list)
    /\ ReadError(zip, sorted_list[index + 1], index) = "none"
    /\ LET d == JsonLoads(zip.content[Member(sorted_list[index + 1])])
       IN  /\ data' = d
           /\ match' = MatchAfter(index, d, match)
           /\ players' = PlayersAfter(index, d, players)
           /\ hits' = Hits(d.samples)
           /\ bounces' = Bounces(d.samples)
    /\ shot_i' = 0
    /\ opened' = Append(opened, Member(sorted_list[index + 1]))
    /\ pc' = "shots"
    /\ UNCHANGED <<zip, err, sorted_list, index, rows, origin, result_csv>>

\* Opening, decoding or unpacking the next document raises.
ReadDocumentError ==
    /\ pc = "next"
    /\ index < Len(sorted_list)
    /\ ReadError(zip, sorted_list[index + 1], index) # "none"
    /\ Fail(ReadError(zip, sorted_list[index + 1], index), "document")
    /\ opened' = IF Member(sorted_list[index + 1]) \in DOMAIN zip.content
                 THEN Append(opened, Member(sorted_list[index + 1]))
                 ELSE opened
    /\ UNCHANGED <<zip, sorted_list, index, match, players, data, hits, bounces,
                   shot_i, rows, origin, result_csv>>

\* The shot's number exceeds the number of hits: continue.
SkipShot ==
    /\ pc = "shots"
    /\ shot_i < Len(data.shots)
    /\ Skips(data.shots[shot_i + 1].shot_no, hits)
    /\ shot_i' = shot_i + 1
    /\ UNCHANGED <<zip, pc, err, sorted_list, index, match, players, data, hits,
                   bounces, rows, origin, opened, result_csv>>

\* A row is built from the shot and appended.
EmitRow ==
    /\ pc = "shots"
    /\ shot_i < Len(data.shots)
    /\ ~Skips(data.shots[shot_i + 1].shot_no, hits)
    /\ ShotError(data.shots[shot_i + 1], hits, players) = "none"
    /\ rows' = Append(rows, Row(data.shots[shot_i + 1], match, players,
                                data.sequences, hits, bounces))
    /\ origin' = Append(origin, [doc |-> index, shot |-> shot_i + 1])
    /\ shot_i' = shot_i + 1
    /\ UNCHANGED <<zip, pc, err, sorted_list, index, match, players, data, hits,
                   bounces, opened, result_csv>>

\* Building the row raises.
EmitRowError ==
    /\ pc = "shots"
    /\ shot_i < Len(data.shots)
    /\ ~Skips(data.shots[shot_i + 1].shot_no, hits)
    /\ ShotError(data.shots[shot_i + 1], hits, players) # "none"
    /\ Fail(ShotError(data.shots[shot_i + 1], hits, players), "shot")
    /\ UNCHANGED <<zip, sorted_list, index, match, players, data, hits, bounces,
                   shot_i, rows, origin, opened, result_csv>>

\* The shot loop ends; the for loop asks the generator for the next document.
EndDocument ==
    /\ pc = "shots"
    /\ shot_i = Len(data.shots)
    /\ index' = index + 1
    /\ pc' = "next"
    /\ UNCHANGED <<zip, err, sorted_list, match, players, data, hits, bounces,
                   shot_i, rows, origin, opened, result_csv>>

\* The generator is exhausted: the loop ends and the row count is printed.
EndOfFiles ==
    /\ pc = "next"
    /\ index = Len(sorted_list)
    /\ pc' = "write"
    /\ UNCHANGED <<zip, err, sorted_list, index, match, players, data, hits,
                   bounces, shot_i, rows, origin, opened, result_csv>>

\* open("result.csv", "w") creates or truncates the file; header and rows
\* are written.
WriteCsv ==
    /\ pc = "write"
    /\ rows # <<>>
    /\ result_csv' = [state |-> "written", header |-> FieldNames, body |-> rows]
    /\ pc' = "done"
    /\ UNCHANGED <<zip, err, sorted_list, index, match, players, data, hits,
                   bounces, shot_i, rows, origin, opened>>

\* open("result.csv", "w") creates or truncates the file; rows[0] raises
\* IndexError inside the with block.
WriteCsvError ==
    /\ pc = "write"
    /\ rows = <<>>
    /\ result_csv' = [state |-> "truncated", header |-> <<>>, body |-> <<>>]
    /\ Fail("IndexError", "writer")
    /\ UNCHANGED <<zip, sorted_list, index, match, players, data, hits, bounces,
                   shot_i, rows, origin, opened>>

Next ==
    \/ OpenZipError
    \/ ListFiles
    \/ SortFilesError
    \/ ReadDocument
    \/ ReadDocumentError
    \/ SkipShot
    \/ EmitRow
    \/ EmitRowError
    \/ EndDocument
    \/ EndOfFiles
    \/ WriteCsv
    \/ WriteCsvError

Spec == Init /\ [][Next]_vars

-----------------------------------------------------------------------------
(* Vocabulary of the properties, stated on the archive and on the original   *)
(* sample order rather than on the script's intermediate lists.              *)

\* The document processed at enumerate() index i.
DocAt(i) == JsonLoads(zip.content[Member(sorted_list[i + 1])])

ShotOf(o) == DocAt(o.doc).shots[o.shot]

\* Positions of the samples of d tagged with the event, in original order.
Tagged(d, event) ==
    {i \in 1..Len(d.samples) :
        "event" \in DOMAIN d.samples[i] /\ d.samples[i].event = event}

HitCount(d) == Cardinality(Tagged(d, "hit"))

\* The n-th hit-tagged sample of d (n counted from 1).
NthHit(d, n) ==
    d.samples[CHOOSE i \in Tagged(d, "hit") :
                  Cardinality({j \in Tagged(d, "hit") : j <= i}) = n]

\* The hit sample a row of shot number n was built from.
HitOfRow(d, n) == NthHit(d, IF n >= 1 THEN n ELSE HitCount(d) + n)

\* The shots that have been handled (skipped or turned into a row) so far.
Handled ==
    UNION {{[doc |-> i, shot |-> p] : p \in 1..Len(DocAt(i).shots)} :
              i \in 0..(index - 1)}
    \cup (IF pc = "shots" \/ err.at = "shot"
          THEN {[doc |-> index, shot |-> p] : p \in 1..shot_i}
          ELSE {})

\* sort_files has returned.
Sorted == pc # "list" /\ err.at \notin {"zip", "sort_files"}

\* The names the pattern captures, in archive order.
Captured == [i \in 1..Len(Collected(zip.names)) |-> Collected(zip.names)[i].name]

-----------------------------------------------------------------------------
(* C1 *)

RowGroupsInDocumentOrder ==
    \A a, b \in 1..Len(origin) : a < b => origin[a].doc <= origin[b].doc

\* C1 as stated: the documents are processed, and their row groups appear,
\* in strictly ascending order of the integer tuple of their names.
C1_StrictlyAscending ==
    Sorted =>
        /\ \A i, j \in 1..Len(sorted_list) :
               i < j => ListLess(Sequence(sorted_list[i]), Sequence(sorted_list[j]))
        /\ RowGroupsInDocumentOrder

\* C1 amended: the documents are processed, and their row groups appear, in
\* non-descending order of the integer tuple of their names, whatever the
\* archive order; names with equal tuples keep their archive order.
C1_AscendingStable ==
    Sorted =>
        LET captured == Captured
            key == [i \in 1..Len(sorted_list) |-> Sequence(sorted_list[i])]
        IN  /\ \A i, j \in 1..Len(sorted_list) : i < j => ~ListLess(key[j], key[i])
            /\ Len(captured) = Len(sorted_list)
            /\ \A i \in 1..Len(sorted_list) :
                   LET SameKey(n) == Sequence(n) = key[i]
                   IN  SelectSeq(sorted_list, SameKey) = SelectSeq(captured, SameKey)
            /\ RowGroupsInDocumentOrder

\* A finished run whose archive lists 10 before 2 and 2_0 before 1_0 style
\* pairs: two documents listed in descending tuple order, both with rows.
C1_Witness ==
    /\ pc = "done"
    /\ Len(Captured) = 2
    /\ ListLess(Sequence(Captured[2]), Sequence(Captured[1]))
    /\ \E a, b \in 1..Len(origin) : origin[a].doc = 0 /\ origin[b].doc = 1

-----------------------------------------------------------------------------
(* C2 *)

\* Positions of the bounce-tagged samples of d with h < time < h + dur.
Qualifying(d, h, dur) ==
    {i \in Tagged(d, "bounce") : h < d.samples[i].time /\ d.samples[i].time < h + dur}

\* C2: the bounce of every row is the earliest-indexed bounce-tagged sample
\* of its document with h < time < h + d (h the time of the shot's hit, d the
\* shot's duration, both bounds strict); without one, ball_bounce_x and
\* ball_bounce_y are the empty string.
C2_BounceSelection ==
    \A a \in 1..Len(rows) :
        LET d == DocAt(origin[a].doc)
            shot == ShotOf(origin[a])
            q == Qualifying(d, HitOfRow(d, shot.shot_no).time, shot.duration)
        IN  IF q = {}
            THEN rows[a].ball_bounce_x = "" /\ rows[a].ball_bounce_y = ""
            ELSE /\ rows[a].ball_bounce_x = d.samples[Min(q)].ball.pos.x
                 /\ rows[a].ball_bounce_y = d.samples[Min(q)].ball.pos.y

\* A row with two qualifying bounces of which the earlier-indexed, the one
\* used, is the later in time.
C2_Witness ==
    \E a \in 1..Len(rows) :
        LET d == DocAt(origin[a].doc)
            shot == ShotOf(origin[a])
            q == Qualifying(d, HitOfRow(d, shot.shot_no).time, shot.duration)
        IN  /\ \E i, j \in q : i < j /\ d.samples[i].time > d.samples[j].time
            /\ rows[a].ball_bounce_x = d.samples[Min(q)].ball.pos.x

-----------------------------------------------------------------------------
(* C3 *)

HitBallIs(row, sample) ==
    /\ row.ball_hit_x = sample.ball.pos.x
    /\ row.ball_hit_y = sample.ball.pos.y
    /\ row.ball_hit_z = sample.ball.pos.z

RowsOf(o) == {a \in 1..Len(origin) : origin[a] = o}

-----------------------------------------------------------------------------
(* C4 *)

\* The shots of document i that are to have a row, in shot order.
RECURSIVE ExpectedOfDoc(_, _)
ExpectedOfDoc(i, p) ==
    IF p > Len(DocAt(i).shots) THEN <<>>
    ELSE (IF DocAt(i).shots[p].shot_no <= HitCount(DocAt(i))
          THEN <<[doc |-> i, shot |-> p]>>
          ELSE <<>>) \o ExpectedOfDoc(i, p + 1)

\* ... of the documents from index i on, in document order.
RECURSIVE ExpectedFrom(_)
ExpectedFrom(i) ==
    IF i >= Len(sorted_list) THEN <<>>
    ELSE ExpectedOfDoc(i, 1) \o ExpectedFrom(i + 1)

\* C4: after a successful run the rows are exactly one per shot whose shot_no
\* is at most the hit count of its document, in document order and then shot
\* order; in every state no row stems from a shot whose shot_no exceeds the
\* hit count, and a skipped shot does not end the run.
C4_RowsAreTheUndroppedShots ==
    /\ Len(rows) = Len(origin)
    /\ \A a \in 1..Len(origin) :
           /\ ShotOf(origin[a]).shot_no <= HitCount(DocAt(origin[a].doc))
           /\ rows[a].shot_n = ShotOf(origin[a]).shot_no
    /\ pc = "done" => origin = ExpectedFrom(0)

\* A finished run in which a document without hits had a shot, a later
\* document produced a row, and in one document a row follows a dropped shot.
C4_Witness ==
    /\ pc = "done"
    /\ \E a \in 1..Len(origin) :
           /\ \E i \in 0..(origin[a].doc - 1) :
                  HitCount(DocAt(i)) = 0 /\ DocAt(i).shots # <<>>
           /\ \E p \in 1..(origin[a].shot - 1) :
                  DocAt(origin[a].doc).shots[p].shot_no > HitCount(DocAt(origin[a].doc))

-----------------------------------------------------------------------------
(* C5 *)

\* The player entries of the hit in the order: entries of the team first,
\* all others after, each group in original order.
TeamFirst(ps, team) ==
    LET of == {j \in 1..Len(ps) : ps[j].team = team}
        rank(j) == IF j \in of
                   THEN Cardinality({m \in of : m <= j})
                   ELSE Cardinality(of) + Cardinality({m \in 1..j : m \notin of})
    IN  [r \in 1..Len(ps) |-> ps[CHOOSE j \in 1..Len(ps) : rank(j) = r]]

\* C5: in every row hitter_x/y is the position of the first and receiver_x/y
\* of the second player entry of the hit in the order "entries of the shot's
\* team first, the others after, each group in original order"; with two
\* entries of which one is of the shot's team, that one is the hitter and
\* the other the receiver.
C5_PlayerOrdering ==
    \A a \in 1..Len(rows) :
        LET d == DocAt(origin[a].doc)
            shot == ShotOf(origin[a])
            ps == HitOfRow(d, shot.shot_no).players
        IN  /\ Len(ps) >= 2
            /\ rows[a].hitter_x = TeamFirst(ps, shot.team)[1].pos.x
            /\ rows[a].hitter_y = TeamFirst(ps, shot.team)[1].pos.y
            /\ rows[a].receiver_x = TeamFirst(ps, shot.team)[2].pos.x
            /\ rows[a].receiver_y = TeamFirst(ps, shot.team)[2].pos.y
            /\ \A j \in 1..2 :
                   (Len(ps) = 2 /\ ps[j].team = shot.team /\ ps[3 - j].team # shot.team) =>
                       /\ rows[a].hitter_x = ps[j].pos.x
                       /\ rows[a].hitter_y = ps[j].pos.y
                       /\ rows[a].receiver_x = ps[3 - j].pos.x
                       /\ rows[a].receiver_y = ps[3 - j].pos.y

\* A row whose hit lists the hitter second of two entries.
C5_Witness ==
    \E a \in 1..Len(rows) :
        LET ps == HitOfRow(DocAt(origin[a].doc), ShotOf(origin[a]).shot_no).players
        IN  /\ Len(ps) = 2
            /\ ps[1].team # ShotOf(origin[a]).team
            /\ ps[2].team = ShotOf(origin[a]).team
            /\ rows[a].hitter_x = ps[2].pos.x
            /\ rows[a].receiver_x = ps[1].pos.x

-----------------------------------------------------------------------------
(* C6 *)

\* C6: the output file is touched only after every document was read and
\* every shot handled; in a run that fails while listing, sorting, decoding
\* or extracting shots the output file is untouched.
C6_OutputOnlyAfterProcessing ==
    /\ result_csv.state # "untouched" =>
           /\ Sorted
           /\ index = Len(sorted_list)
           /\ Len(opened) = Len(sorted_list)
           /\ \A i \in 0..(Len(sorted_list) - 1) :
                  \A p \in 1..Len(DocAt(i).shots) : [doc |-> i, shot |-> p] \in Handled
           /\ pc = "done" \/ (pc = "failed" /\ err.at = "writer")
    /\ (pc = "failed" /\ err.at \in {"zip", "sort_files", "document", "shot"}) =>
           result_csv = Untouched

\* A run that failed on a shot of its second document after rows had been
\* produced, with the output file untouched.
C6_Witness ==
    /\ pc = "failed"
    /\ err.at = "shot"
    /\ index = 1
    /\ rows # <<>>
    /\ result_csv = Untouched

-----------------------------------------------------------------------------
(* C7 *)

\* C7: when the row list is empty after all documents were processed, the
\* run fails fatally without the output file having been created, truncated
\* or written.
C7_EmptyResultLeavesNoOutput ==
    (pc \in {"done", "failed"} /\ err.at \in {"none", "writer"} /\ rows = <<>>) =>
        /\ pc = "failed"
        /\ result_csv = Untouched

-----------------------------------------------------------------------------
(* C8 *)

\* The name is of the form data/<name>.json, <name> not empty.
IsDataJson(n) ==
    /\ Len(n) > Len(DataPrefix) + Len(JsonSuffix)
    /\ LitAt(n, 1, DataPrefix)
    /\ LitAt(n, Len(n) - Len(JsonSuffix) + 1, JsonSuffix)

\* C8: entries not of the form data/<name>.json are skipped: removing them
\* from the listing changes neither whether sort_files fails nor the names it
\* returns, and every entry that is opened is opened once.
C8_OtherEntriesIgnored ==
    LET kept == SelectSeq(zip.names, IsDataJson)
    IN  /\ \A i, j \in 1..Len(opened) : i # j => opened[i] # opened[j]
        /\ SortFilesRaises(zip.names) = SortFilesRaises(kept)
        /\ (Sorted /\ ~SortFilesRaises(kept)) => sorted_list = SortFiles(kept)

-----------------------------------------------------------------------------
(* C9 *)

\* The external_id the roster gives the team (the last entry of the team).
ExternalId(roster, team) ==
    roster[Max({i \in 1..Len(roster) : roster[i].team = team})].external_id

\* C9: match and players are those of the first document in sorted order
\* from the moment it is read, and None before; every row carries that
\* document's season, tournament_id and draw_code, and the external_id its
\* roster gives the shot's team.
C9_MatchFromFirstDocument ==
    /\ IF index = 0 /\ pc \notin {"shots"} /\ err.at # "shot"
       THEN match = None /\ players = None
       ELSE /\ match = DocAt(0).match
            /\ DOMAIN players = {match.players[i].team : i \in 1..Len(match.players)}
    /\ \A a \in 1..Len(rows) :
           LET first == DocAt(0).match
           IN  /\ rows[a].season = first.season
               /\ rows[a].tournament_id = first.tournament_id
               /\ rows[a].draw_code = first.draw_code
               /\ rows[a].hitter_external_id =
                      ExternalId(first.players, ShotOf(origin[a]).team)

\* A row of the second document in sorted order, which is listed first in
\* the archive and has a "match" of its own with another season and roster.
C9_Witness ==
    \E a \in 1..Len(rows) :
        /\ origin[a].doc = 1
        /\ zip.names[1] = Member(sorted_list[2])
        /\ "match" \in DOMAIN DocAt(1)
        /\ DocAt(1).match # DocAt(0).match
        /\ rows[a].season = DocAt(0).match.season
        /\ rows[a].season # DocAt(1).match.season

-----------------------------------------------------------------------------
(* C10 *)

\* The segment is an integer literal: an optional sign and one or more
\* digits, possibly surrounded by blanks.
ParsesAsInteger(seg) ==
    \E i, j \in 1..Len(seg) :
        /\ i <= j
        /\ \A k \in 1..(i - 1) : seg[k] = " " \/ (k = i - 1 /\ seg[k] \in {"+", "-"})
        /\ \A k \in i..j : seg[k] \in Range(Digits)
        /\ \A k \in (j + 1)..Len(seg) : seg[k] = " "

\* Some entry's captured name has a segment that is no integer.
HasBadSegment ==
    \E e \in 1..Len(zip.names) :
        /\ Search(zip.names[e]).found
        /\ \E p \in 1..Len(Split(Search(zip.names[e]).group)) :
               ~ParsesAsInteger(Split(Search(zip.names[e]).group)[p])

====
